---- MODULE Spec2Model ----
(***************************************************************************)
(* lockfree::spsc_queue<T, Alloc> (lockfree/spsc_queue.hpp).               *)
(*                                                                         *)
(* One producer thread and one consumer thread run the member functions of *)
(* one queue.  Every step of a thread holds at most one access to memory   *)
(* the other thread may write (before_head_, a node's next); accesses to   *)
(* memory only the stepping thread writes are folded into that step.  The  *)
(* assignment to tail_ that follows a publication store is a step of its   *)
(* own: until it is taken tail_ is behind the chain the consumer walks.    *)
(* Atomic accesses are interleaved sequentially consistently.              *)
(*                                                                         *)
(* Nodes are the addresses 1..MaxNodes, Null is nullptr.  A data slot      *)
(* holds the value constructed in it, or Dead when no value is live in it. *)
(* The producer pushes the values 0, 1, 2, ... in that order.              *)
(***************************************************************************)
EXTENDS Integers, Sequences, FiniteSets, TLC

\* Number of node addresses the allocator can hand out.
MaxNodes == 5
\* Number of elements the producer constructs over a run.
MaxPush == 4
\* Longest range given to push(first, last).
MaxRange == 3
\* Number of exceptions thrown over a run (allocator, T, f).
MaxThrow == 1

Null == 0
Dead == 0 - 1
Nodes == 1 .. MaxNodes
Vals == 0 .. (MaxPush - 1)

VARIABLES
    alloc,          \* nodes obtained from the allocator and not given back
    next,           \* node_type::next of every address
    data,           \* node_type::data of every address (Dead: not live)
    tail_,
    before_head_,
    cache_tail_,
    cache_head_,
    ppc,            \* producer: position in its member function
    x,              \* producer: make_node_'s x
    insert_head,    \* producer: push(first, last)'s private chain
    insert_tail,
    todo,           \* producer: elements of [first, last) not yet staged
    perr,           \* producer: the call that last ended in an exception
    cpc,            \* consumer: position in its member function
    cx,             \* consumer: pop's and consume_all's x
    last,           \* consumer: clear's last
    out,            \* consumer: the caller's out slot of pop
    nextVal,        \* the value the next construct of T stores
    nThrow,         \* exceptions thrown so far
    nAlloc,         \* calls of allocate that returned a node
    nDealloc,       \* calls of deallocate
    nConstruct,     \* data slots constructed
    nDestroy,       \* data slots destroyed
    published,      \* values stored into the chain by a publication store
    consumed,       \* values the consumer took out of the queue, in order
    cres,           \* consumer: what its last call returned
    destroyed,      \* ~spsc_queue has run
    phase           \* the calls so far: pushes ("fill"), then takes of
                    \* all of them ("drain"), then single pushes
                    \* ("refill"); "off" for any other run

qvars == <<alloc, next, data, tail_, before_head_, cache_tail_, cache_head_>>
pvars == <<ppc, x, insert_head, insert_tail, todo, perr>>
cvars == <<cpc, cx, last, out, cres>>
gvars == <<nextVal, nThrow, nAlloc, nDealloc, nConstruct, nDestroy,
           published, consumed, destroyed>>
vars == <<qvars, pvars, cvars, gvars, phase>>

----------------------------------------------------------------------------
\* Helpers.

\* x->next.load(...); a load through nullptr yields nullptr here.
NextOf(n) == IF n \in Nodes THEN next[n] ELSE Null

\* x->data as read by the program; Dead marks a slot with no live value.
DataOf(n) == IF n \in Nodes THEN data[n] ELSE Dead

RECURSIVE WalkFrom(_, _)
\* The nodes met following next from n until nullptr, at most fuel of them.
WalkFrom(n, fuel) ==
    IF n = Null \/ fuel = 0 THEN <<>>
    ELSE <<n>> \o WalkFrom(NextOf(n), fuel - 1)

RECURSIVE WalkUntil(_, _, _)
\* The nodes met following next from n until reaching stop (exclusive).
WalkUntil(n, stop, fuel) ==
    IF n = stop \/ n = Null \/ fuel = 0 THEN <<>>
    ELSE <<n>> \o WalkUntil(NextOf(n), stop, fuel - 1)

Range(s) == {s[i] : i \in 1 .. Len(s)}

\* The data of the nodes of s, in order.
ValuesOf(s) == [i \in 1 .. Len(s) |-> DataOf(s[i])]

\* A read of x->data: the value in a live slot; no value is determined
\* by the program when the slot is not live.
ReadData(n) == IF DataOf(n) = Dead THEN Vals \cup {Dead} ELSE {DataOf(n)}

\* destroy(alloc_(), addressof(n->data)).
DestroyData(n) == [m \in Nodes |-> IF m = n THEN Dead ELSE data[m]]

\* allocate(a, 1): the allocator returns an address not in use.
FreeNodes == Nodes \ alloc
NewNode == CHOOSE n \in FreeNodes : \A m \in FreeNodes : n <= m

\* head_ returning the sentinel itself.
HeadIsSentinel == before_head_

\* spsc_queue::head_(): before_head_->next.
head_ == NextOf(before_head_)

CRes(op, ret, ptr) == [op |-> op, ret |-> ret, ptr |-> ptr]

\* phase once the producer enters a push (single: of one element): pushes
\* before any take keep "fill"; the first push after the takes emptied the
\* queue starts "refill".
PhaseAfterPush(single) ==
    CASE phase = "fill" -> "fill"
      [] phase = "drain" ->
            IF single /\ cpc = "idle" /\ Len(consumed) = Len(published)
            THEN "refill" ELSE "off"
      [] phase = "refill" -> IF single THEN "refill" ELSE "off"
      [] OTHER -> "off"

\* phase once the consumer enters a pop, clear or consume_all that finds an
\* element: takes that follow the pushes keep "drain".
PhaseAfterTake ==
    IF phase \in {"fill", "drain"} /\ ppc = "idle" THEN "drain" ELSE "off"

----------------------------------------------------------------------------
\* Construction: spsc_queue(node_allocator).

Init ==
    /\ alloc = {1}
    /\ next = [n \in Nodes |-> Null]
    /\ data = [n \in Nodes |-> Dead]
    /\ tail_ = 1
    /\ before_head_ = 1
    /\ cache_tail_ = 1
    /\ cache_head_ = 1
    /\ ppc = "idle"
    /\ x = Null
    /\ insert_head = Null
    /\ insert_tail = Null
    /\ todo = 0
    /\ perr = "none"
    /\ cpc = "idle"
    /\ cx = Null
    /\ last = Null
    /\ out = Dead
    /\ nextVal = 0
    /\ nThrow = 0
    /\ nAlloc = 1
    /\ nDealloc = 0
    /\ nConstruct = 0
    /\ nDestroy = 0
    /\ published = <<>>
    /\ consumed = <<>>
    /\ cres = CRes("none", "none", Null)
    /\ destroyed = FALSE
    /\ phase = "fill"


----------------------------------------------------------------------------
\* Producer: make_node_.

\* The refill taking tail_ for before_head_.
CacheRefillFromTail == IF cache_tail_ = cache_head_ THEN tail_ ELSE cache_tail_

\* make_node_ without line 279: the snapshot is never refilled.
CacheRefillKeepsSnapshot == cache_tail_

\* Lines 278-280: the value of cache_tail_ after the refill test.
CacheRefill == IF cache_tail_ = cache_head_ THEN before_head_ ELSE cache_tail_

\* Lines 277-280: x = cache_head_(), and the refill of cache_tail_.
MakeNodeLoad ==
    /\ x' = cache_head_
    /\ cache_tail_' = CacheRefill

\* Line 281: the test that chooses recycling over allocation.
Recycles == cache_tail_ /= x

\* The node make_node_ returns.
MadeNode == IF Recycles THEN x ELSE NewNode

\* make_node_ without line 300: the node keeps the next it had.
NextStaleAfterMake == next

\* Lines 286 and 300: next of every node once make_node_ has returned
\* MadeNode (advance_ only reads x->next; line 300 stores nullptr).
NextAfterMake == [next EXCEPT ![MadeNode] = Null]

\* make_node_ without line 286: a recycled node stays at the front of the
\* cache.
MakeNodeOkKeepsCacheHead ==
    /\ Recycles \/ FreeNodes /= {}
    /\ data' = [data EXCEPT ![MadeNode] = nextVal]
    /\ cache_head_' = cache_head_
    /\ alloc' = IF Recycles THEN alloc ELSE alloc \cup {NewNode}
    /\ nAlloc' = IF Recycles THEN nAlloc ELSE nAlloc + 1
    /\ nConstruct' = nConstruct + 1
    /\ nextVal' = nextVal + 1
    /\ UNCHANGED <<nDealloc, nThrow>>

\* Lines 281-302, no exception: construct data in the recycled or the
\* new node, and take a recycled node out of the cache.
MakeNodeOk ==
    /\ Recycles \/ FreeNodes /= {}
    /\ data' = [data EXCEPT ![MadeNode] = nextVal]
    /\ cache_head_' = IF Recycles THEN NextOf(x) ELSE cache_head_
    /\ alloc' = IF Recycles THEN alloc ELSE alloc \cup {NewNode}
    /\ nAlloc' = IF Recycles THEN nAlloc ELSE nAlloc + 1
    /\ nConstruct' = nConstruct + 1
    /\ nextVal' = nextVal + 1
    /\ UNCHANGED <<nDealloc, nThrow>>

\* make_node_ without the catch block of lines 295-298: a node whose data
\* failed to construct stays allocated.
MakeNodeThrowLeak ==
    /\ nThrow < MaxThrow
    /\ nThrow' = nThrow + 1
    /\ \/ /\ Recycles
          /\ UNCHANGED <<alloc, nAlloc>>
       \/ /\ ~Recycles
          /\ FreeNodes /= {}
          /\ alloc' = alloc \cup {NewNode}
          /\ nAlloc' = nAlloc + 1
    /\ UNCHANGED <<data, cache_head_, nDealloc, nConstruct, nextVal>>

\* Lines 283, 290, 292-298: allocate fails, or construct throws (a node
\* allocated by this call is deallocated before the rethrow).
MakeNodeThrow ==
    /\ nThrow < MaxThrow
    /\ nThrow' = nThrow + 1
    /\ \/ /\ ~Recycles
          /\ UNCHANGED <<nAlloc, nDealloc>>
       \/ /\ Recycles
          /\ UNCHANGED <<nAlloc, nDealloc>>
       \/ /\ ~Recycles
          /\ FreeNodes /= {}
          /\ nAlloc' = nAlloc + 1
          /\ nDealloc' = nDealloc + 1
    /\ UNCHANGED <<data, cache_head_, alloc, nConstruct, nextVal>>

----------------------------------------------------------------------------
\* Producer: emplace / push(v).

\* Line 144, first half: enter make_node_.
EmplaceLoad ==
    /\ ppc = "idle"
    /\ ~destroyed
    /\ nextVal < MaxPush
    /\ FreeNodes /= {}
    /\ MakeNodeLoad
    /\ ppc' = "e_make"
    /\ UNCHANGED <<alloc, next, data, tail_, before_head_, cache_head_>>
    /\ UNCHANGED <<insert_head, insert_tail, todo, perr>>
    /\ UNCHANGED <<cvars, gvars>>
    /\ phase' = PhaseAfterPush(TRUE)

\* Line 144, second half: make_node_ returns x or throws.
EmplaceMake ==
    /\ ppc = "e_make"
    /\ \/ /\ MakeNodeOk
          /\ next' = NextAfterMake
          /\ x' = MadeNode
          /\ ppc' = "e_publish"
          /\ perr' = perr
       \/ /\ MakeNodeThrow
          /\ next' = next
          /\ x' = Null
          /\ ppc' = "idle"
          /\ perr' = "emplace"
    /\ UNCHANGED <<tail_, before_head_, cache_tail_>>
    /\ UNCHANGED <<insert_head, insert_tail, todo>>
    /\ UNCHANGED <<cvars, nDestroy, published, consumed, destroyed>>
    /\ UNCHANGED phase

\* Line 145: the release store of x to tail_->next.
EmplacePublish ==
    /\ ppc = "e_publish"
    /\ next' = [next EXCEPT ![tail_] = x]
    /\ published' = Append(published, DataOf(x))
    /\ ppc' = "e_tail"
    /\ UNCHANGED <<alloc, data, tail_, before_head_, cache_tail_, cache_head_>>
    /\ UNCHANGED <<x, insert_head, insert_tail, todo, perr>>
    /\ UNCHANGED <<cvars, nextVal, nThrow, nAlloc, nDealloc, nConstruct,
                   nDestroy, consumed, destroyed>>
    /\ UNCHANGED phase

\* emplace without line 146: tail_ is not advanced.
EmplaceTailKeepsTail ==
    /\ ppc = "e_tail"
    /\ tail_' = tail_
    /\ x' = Null
    /\ ppc' = "idle"
    /\ perr' = "none"
    /\ UNCHANGED <<alloc, next, data, before_head_, cache_tail_, cache_head_>>
    /\ UNCHANGED <<insert_head, insert_tail, todo>>
    /\ UNCHANGED <<cvars, gvars>>
    /\ UNCHANGED phase

\* Line 146: tail_ = x, and the return.
EmplaceTail ==
    /\ ppc = "e_tail"
    /\ tail_' = x
    /\ x' = Null
    /\ ppc' = "idle"
    /\ perr' = "none"
    /\ UNCHANGED <<alloc, next, data, before_head_, cache_tail_, cache_head_>>
    /\ UNCHANGED <<insert_head, insert_tail, todo>>
    /\ UNCHANGED <<cvars, gvars>>
    /\ UNCHANGED phase

----------------------------------------------------------------------------
\* Producer: push(first, last).

\* Lines 162-164: an empty range returns at once.
RangeEmpty ==
    /\ ppc = "idle"
    /\ ~destroyed
    /\ perr' = "none"
    /\ UNCHANGED <<qvars, ppc, x, insert_head, insert_tail, todo>>
    /\ UNCHANGED <<cvars, gvars>>
    /\ UNCHANGED phase

\* Line 166, first half: enter make_node_ for the first of k elements.
RangeLoad(k) ==
    /\ ppc = "idle"
    /\ ~destroyed
    /\ nextVal + k <= MaxPush
    /\ Cardinality(FreeNodes) >= k
    /\ MakeNodeLoad
    /\ todo' = k
    /\ insert_head' = Null
    /\ insert_tail' = Null
    /\ ppc' = "r_make"
    /\ UNCHANGED <<alloc, next, data, tail_, before_head_, cache_head_>>
    /\ UNCHANGED <<perr, cvars, gvars>>
    /\ phase' = PhaseAfterPush(FALSE)

\* Line 171, first half: enter make_node_ for a further element.
RangeReload ==
    /\ ppc = "r_load"
    /\ MakeNodeLoad
    /\ ppc' = "r_make"
    /\ UNCHANGED <<alloc, next, data, tail_, before_head_, cache_head_>>
    /\ UNCHANGED <<insert_head, insert_tail, todo, perr>>
    /\ UNCHANGED <<cvars, gvars>>
    /\ UNCHANGED phase

\* Lines 166-167 and 171-173: make_node_ returns x, which becomes the
\* private chain or is linked behind insert_tail; or it throws, outside the
\* try block for the first element and into the catch block afterwards.
RangeMake ==
    /\ ppc = "r_make"
    /\ \/ /\ MakeNodeOk
          /\ next' = IF insert_head = Null
                     THEN NextAfterMake
                     ELSE [NextAfterMake EXCEPT ![insert_tail] = MadeNode]
          /\ insert_head' = IF insert_head = Null THEN MadeNode
                            ELSE insert_head
          /\ insert_tail' = MadeNode
          /\ todo' = todo - 1
          /\ x' = MadeNode
          /\ ppc' = IF todo = 1 THEN "r_publish" ELSE "r_load"
          /\ perr' = perr
       \/ /\ MakeNodeThrow
          /\ next' = next
          /\ x' = Null
          /\ IF insert_head = Null
             THEN /\ ppc' = "idle"
                  /\ perr' = "range"
                  /\ todo' = 0
             ELSE /\ ppc' = "r_catch"
                  /\ perr' = perr
                  /\ todo' = todo
          /\ UNCHANGED <<insert_head, insert_tail>>
    /\ UNCHANGED <<tail_, before_head_, cache_tail_>>
    /\ UNCHANGED <<cvars, nDestroy, published, consumed, destroyed>>
    /\ UNCHANGED phase

\* The catch block without line 179: staged data is not destroyed.
RangeCatchNoDestroy ==
    /\ ppc = "r_catch"
    /\ insert_head' = NextOf(insert_head)
    /\ alloc' = alloc \ {insert_head}
    /\ nDealloc' = nDealloc + 1
    /\ IF NextOf(insert_head) = Null
       THEN /\ ppc' = "idle"
            /\ perr' = "range"
            /\ insert_tail' = Null
            /\ todo' = 0
       ELSE UNCHANGED <<ppc, perr, insert_tail, todo>>
    /\ UNCHANGED <<next, tail_, before_head_, cache_tail_, cache_head_, x>>
    /\ UNCHANGED <<cvars, nextVal, nThrow, nAlloc, nConstruct, published,
                   consumed, destroyed, data, nDestroy>>
    /\ UNCHANGED phase

\* Lines 177-182: one turn of the catch block's loop, and the rethrow
\* once insert_head is nullptr.
RangeCatch ==
    /\ ppc = "r_catch"
    /\ insert_head' = NextOf(insert_head)
    /\ data' = DestroyData(insert_head)
    /\ alloc' = alloc \ {insert_head}
    /\ nDestroy' = nDestroy + 1
    /\ nDealloc' = nDealloc + 1
    /\ IF NextOf(insert_head) = Null
       THEN /\ ppc' = "idle"
            /\ perr' = "range"
            /\ insert_tail' = Null
            /\ todo' = 0
       ELSE UNCHANGED <<ppc, perr, insert_tail, todo>>
    /\ UNCHANGED <<next, tail_, before_head_, cache_tail_, cache_head_, x>>
    /\ UNCHANGED <<cvars, nextVal, nThrow, nAlloc, nConstruct, published,
                   consumed, destroyed>>
    /\ UNCHANGED phase

\* The publication store given the last staged node.
PublishedTailOnly == insert_tail

\* Line 185: the node the release store puts into tail_->next.
PublishedChain == insert_head

\* Line 185: the release store of insert_head to tail_->next.
RangePublish ==
    /\ ppc = "r_publish"
    /\ next' = [next EXCEPT ![tail_] = PublishedChain]
    /\ published' = published \o ValuesOf(WalkFrom(insert_head, MaxNodes + 1))
    /\ ppc' = "r_tail"
    /\ UNCHANGED <<alloc, data, tail_, before_head_, cache_tail_, cache_head_>>
    /\ UNCHANGED <<x, insert_head, insert_tail, todo, perr>>
    /\ UNCHANGED <<cvars, nextVal, nThrow, nAlloc, nDealloc, nConstruct,
                   nDestroy, consumed, destroyed>>
    /\ UNCHANGED phase

\* push(first, last) assigning insert_head to tail_.
RangeTailAtHead ==
    /\ ppc = "r_tail"
    /\ tail_' = insert_head
    /\ x' = Null
    /\ insert_head' = Null
    /\ insert_tail' = Null
    /\ ppc' = "idle"
    /\ perr' = "none"
    /\ UNCHANGED <<alloc, next, data, before_head_, cache_tail_, cache_head_>>
    /\ UNCHANGED todo
    /\ UNCHANGED <<cvars, gvars>>
    /\ UNCHANGED phase

\* Line 186: tail_ = insert_tail, and the return.
RangeTail ==
    /\ ppc = "r_tail"
    /\ tail_' = insert_tail
    /\ x' = Null
    /\ insert_head' = Null
    /\ insert_tail' = Null
    /\ ppc' = "idle"
    /\ perr' = "none"
    /\ UNCHANGED <<alloc, next, data, before_head_, cache_tail_, cache_head_>>
    /\ UNCHANGED todo
    /\ UNCHANGED <<cvars, gvars>>
    /\ UNCHANGED phase

Producer ==
    \/ EmplaceLoad
    \/ EmplaceMake
    \/ EmplacePublish
    \/ EmplaceTail
    \/ RangeEmpty
    \/ \E k \in 1 .. MaxRange : RangeLoad(k)
    \/ RangeReload
    \/ RangeMake
    \/ RangeCatch
    \/ RangePublish
    \/ RangeTail

----------------------------------------------------------------------------
\* Consumer.

\* pop writing a value-initialised T to out before it returns false.
PopLoadAssignsOut ==
    /\ cpc = "idle"
    /\ ~destroyed
    /\ cx' = head_
    /\ IF head_ = Null
       THEN /\ cpc' = "idle"
            /\ cres' = CRes("pop", "false", Null)
            /\ out' = Dead
       ELSE /\ cpc' = "pop_move"
            /\ cres' = cres
            /\ out' = out
    /\ UNCHANGED <<qvars, pvars, gvars, last>>
    /\ phase' = IF head_ = Null THEN phase ELSE PhaseAfterTake

\* Line 208: x = head_(); line 214 when it is nullptr.
PopLoad ==
    /\ cpc = "idle"
    /\ ~destroyed
    /\ cx' = head_
    /\ IF head_ = Null
       THEN /\ cpc' = "idle"
            /\ cres' = CRes("pop", "false", Null)
       ELSE /\ cpc' = "pop_move"
            /\ cres' = cres
    /\ UNCHANGED <<qvars, pvars, gvars, last, out>>
    /\ phase' = IF head_ = Null THEN phase ELSE PhaseAfterTake

\* pop storing x to before_head_ although the move threw.
PopMoveReleasesOnThrow ==
    /\ cpc = "pop_move"
    /\ \/ /\ \E v \in ReadData(cx) :
                /\ out' = v
                /\ consumed' = Append(consumed, v)
          /\ data' = DestroyData(cx)
          /\ nDestroy' = nDestroy + 1
          /\ cpc' = "pop_store"
          /\ UNCHANGED <<cx, cres, nThrow, before_head_>>
       \/ /\ nThrow < MaxThrow
          /\ nThrow' = nThrow + 1
          /\ cpc' = "idle"
          /\ cres' = CRes("pop", "throw", Null)
          /\ cx' = Null
          /\ before_head_' = cx
          /\ UNCHANGED <<out, consumed, data, nDestroy>>
    /\ UNCHANGED <<alloc, next, tail_, cache_tail_, cache_head_>>
    /\ UNCHANGED <<pvars, last>>
    /\ UNCHANGED <<nextVal, nAlloc, nDealloc, nConstruct, published,
                   destroyed>>
    /\ UNCHANGED phase

\* Lines 209-210: move x->data into out and destroy it; or the move throws.
PopMove ==
    /\ cpc = "pop_move"
    /\ \/ /\ \E v \in ReadData(cx) :
                /\ out' = v
                /\ consumed' = Append(consumed, v)
          /\ data' = DestroyData(cx)
          /\ nDestroy' = nDestroy + 1
          /\ cpc' = "pop_store"
          /\ UNCHANGED <<cx, cres, nThrow>>
       \/ /\ nThrow < MaxThrow
          /\ nThrow' = nThrow + 1
          /\ cpc' = "idle"
          /\ cres' = CRes("pop", "throw", Null)
          /\ cx' = Null
          /\ UNCHANGED <<out, consumed, data, nDestroy>>
    /\ UNCHANGED <<alloc, next, tail_, before_head_, cache_tail_, cache_head_>>
    /\ UNCHANGED <<pvars, last>>
    /\ UNCHANGED <<nextVal, nAlloc, nDealloc, nConstruct, published,
                   destroyed>>
    /\ UNCHANGED phase

\* pop holding its store to before_head_ back while the producer is inside
\* a push.
PopStoreWaitsForProducer ==
    /\ cpc = "pop_store"
    /\ ppc = "idle"
    /\ before_head_' = cx
    /\ cpc' = "idle"
    /\ cres' = CRes("pop", "true", Null)
    /\ cx' = Null
    /\ UNCHANGED <<alloc, next, data, tail_, cache_tail_, cache_head_>>
    /\ UNCHANGED <<pvars, gvars, last, out>>
    /\ UNCHANGED phase

\* Lines 211-212: the release store of x to before_head_; return true.
PopStore ==
    /\ cpc = "pop_store"
    /\ before_head_' = cx
    /\ cpc' = "idle"
    /\ cres' = CRes("pop", "true", Null)
    /\ cx' = Null
    /\ UNCHANGED <<alloc, next, data, tail_, cache_tail_, cache_head_>>
    /\ UNCHANGED <<pvars, gvars, last, out>>
    /\ UNCHANGED phase

\* front storing the node it found to before_head_, as pop does.
FrontAdvances ==
    /\ cpc = "idle"
    /\ ~destroyed
    /\ cres' = CRes("front", IF head_ = Null THEN "null" ELSE "data", head_)
    /\ before_head_' = IF head_ = Null THEN before_head_ ELSE head_
    /\ UNCHANGED <<alloc, next, data, tail_, cache_tail_, cache_head_>>
    /\ UNCHANGED <<pvars, gvars, cpc, cx, last, out>>
    /\ UNCHANGED phase

\* Lines 217-221: front().
Front ==
    /\ cpc = "idle"
    /\ ~destroyed
    /\ cres' = CRes("front", IF head_ = Null THEN "null" ELSE "data", head_)
    /\ UNCHANGED <<qvars, pvars, gvars, cpc, cx, last, out>>
    /\ UNCHANGED phase

\* Lines 229-232: empty().
Empty ==
    /\ cpc = "idle"
    /\ ~destroyed
    /\ cres' = CRes("empty", IF head_ = Null THEN "true" ELSE "false", Null)
    /\ UNCHANGED <<qvars, pvars, gvars, cpc, cx, last, out>>
    /\ UNCHANGED phase

\* clear storing x to before_head_ in every turn of its loop.
ClearTurnStores(l) ==
    /\ IF NextOf(l) = Null
       THEN /\ cpc' = "clear_store"
            /\ last' = l
            /\ UNCHANGED <<data, nDestroy, consumed, before_head_>>
       ELSE /\ cpc' = "clear_walk"
            /\ last' = NextOf(l)
            /\ data' = DestroyData(NextOf(l))
            /\ nDestroy' = nDestroy + 1
            /\ before_head_' = NextOf(l)
            /\ \E v \in ReadData(NextOf(l)) : consumed' = Append(consumed, v)
    /\ UNCHANGED <<alloc, next, tail_, cache_tail_, cache_head_>>
    /\ UNCHANGED <<pvars, cx, out, cres>>
    /\ UNCHANGED <<nextVal, nThrow, nAlloc, nDealloc, nConstruct, published,
                   destroyed>>

\* Lines 197-200: one test of the loop from last = l and, when x is not
\* nullptr, its body.
ClearTurn(l) ==
    /\ IF NextOf(l) = Null
       THEN /\ cpc' = "clear_store"
            /\ last' = l
            /\ UNCHANGED <<data, nDestroy, consumed>>
       ELSE /\ cpc' = "clear_walk"
            /\ last' = NextOf(l)
            /\ data' = DestroyData(NextOf(l))
            /\ nDestroy' = nDestroy + 1
            /\ \E v \in ReadData(NextOf(l)) : consumed' = Append(consumed, v)
    /\ UNCHANGED <<alloc, next, tail_, before_head_, cache_tail_, cache_head_>>
    /\ UNCHANGED <<pvars, cx, out, cres>>
    /\ UNCHANGED <<nextVal, nThrow, nAlloc, nDealloc, nConstruct, published,
                   destroyed>>

\* Line 196, last = before_head_, and the first turn of the loop.
ClearLoad ==
    /\ cpc = "idle"
    /\ ~destroyed
    /\ ClearTurn(before_head_)
    /\ phase' = IF head_ = Null THEN phase ELSE PhaseAfterTake

\* Lines 197-200: a further turn of the loop.
ClearWalk ==
    /\ cpc = "clear_walk"
    /\ ClearTurn(last)
    /\ UNCHANGED phase

\* clear storing the loop's x, last->next, where line 201 stores last.
ClearStoresNext ==
    /\ cpc = "clear_store"
    /\ before_head_' = NextOf(last)
    /\ cpc' = "idle"
    /\ cres' = CRes("clear", "void", Null)
    /\ last' = Null
    /\ UNCHANGED <<alloc, next, data, tail_, cache_tail_, cache_head_>>
    /\ UNCHANGED <<pvars, gvars, cx, out>>
    /\ UNCHANGED phase

\* Line 201: the release store of last to before_head_.
ClearStore ==
    /\ cpc = "clear_store"
    /\ before_head_' = last
    /\ cpc' = "idle"
    /\ cres' = CRes("clear", "void", Null)
    /\ last' = Null
    /\ UNCHANGED <<alloc, next, data, tail_, cache_tail_, cache_head_>>
    /\ UNCHANGED <<pvars, gvars, cx, out>>
    /\ UNCHANGED phase

\* Line 237: x = head_(), and the first test of the loop.
ConsumeLoad ==
    /\ cpc = "idle"
    /\ ~destroyed
    /\ cx' = head_
    /\ IF head_ = Null
       THEN /\ cpc' = "idle"
            /\ cres' = CRes("consume_all", "void", Null)
       ELSE /\ cpc' = "ca_body"
            /\ cres' = cres
    /\ UNCHANGED <<qvars, pvars, gvars, last, out>>
    /\ phase' = IF head_ = Null THEN phase ELSE PhaseAfterTake

\* consume_all without line 239: the element is not destroyed.
ConsumeBodyNoDestroy ==
    /\ cpc = "ca_body"
    /\ \/ /\ \E v \in ReadData(cx) :
                consumed' = Append(consumed, v)
          /\ cpc' = "ca_store"
          /\ UNCHANGED <<cx, cres, nThrow, data, nDestroy>>
       \/ /\ nThrow < MaxThrow
          /\ nThrow' = nThrow + 1
          /\ cpc' = "idle"
          /\ cres' = CRes("consume_all", "throw", Null)
          /\ cx' = Null
          /\ UNCHANGED <<consumed, data, nDestroy>>
    /\ UNCHANGED <<alloc, next, tail_, before_head_, cache_tail_, cache_head_>>
    /\ UNCHANGED <<pvars, last, out>>
    /\ UNCHANGED <<nextVal, nAlloc, nDealloc, nConstruct, published,
                   destroyed>>
    /\ UNCHANGED phase

\* Lines 238-239: invoke f on x->data and destroy it; or f throws.
ConsumeBody ==
    /\ cpc = "ca_body"
    /\ \/ /\ \E v \in ReadData(cx) :
                consumed' = Append(consumed, v)
          /\ data' = DestroyData(cx)
          /\ nDestroy' = nDestroy + 1
          /\ cpc' = "ca_store"
          /\ UNCHANGED <<cx, cres, nThrow>>
       \/ /\ nThrow < MaxThrow
          /\ nThrow' = nThrow + 1
          /\ cpc' = "idle"
          /\ cres' = CRes("consume_all", "throw", Null)
          /\ cx' = Null
          /\ UNCHANGED <<consumed, data, nDestroy>>
    /\ UNCHANGED <<alloc, next, tail_, before_head_, cache_tail_, cache_head_>>
    /\ UNCHANGED <<pvars, last, out>>
    /\ UNCHANGED <<nextVal, nAlloc, nDealloc, nConstruct, published,
                   destroyed>>
    /\ UNCHANGED phase

\* consume_all also moving the producer's cache snapshot up to x.
ConsumeStoreMovesCacheTail ==
    /\ cpc = "ca_store"
    /\ before_head_' = cx
    /\ cache_tail_' = cx
    /\ cpc' = "ca_next"
    /\ UNCHANGED <<alloc, next, data, tail_, cache_head_>>
    /\ UNCHANGED <<pvars, gvars, cx, last, out, cres>>
    /\ UNCHANGED phase

\* Line 240: the release store of x to before_head_.
ConsumeStore ==
    /\ cpc = "ca_store"
    /\ before_head_' = cx
    /\ cpc' = "ca_next"
    /\ UNCHANGED <<alloc, next, data, tail_, cache_tail_, cache_head_>>
    /\ UNCHANGED <<pvars, gvars, cx, last, out, cres>>
    /\ UNCHANGED phase

\* consume_all returning after its first element, without line 241.
ConsumeNextReturns ==
    /\ cpc = "ca_next"
    /\ cx' = Null
    /\ cpc' = "idle"
    /\ cres' = CRes("consume_all", "void", Null)
    /\ UNCHANGED <<qvars, pvars, gvars, last, out>>
    /\ UNCHANGED phase

\* Line 241 and the loop test of line 237: x = x->next.
ConsumeNext ==
    /\ cpc = "ca_next"
    /\ cx' = NextOf(cx)
    /\ IF NextOf(cx) = Null
       THEN /\ cpc' = "idle"
            /\ cres' = CRes("consume_all", "void", Null)
       ELSE /\ cpc' = "ca_body"
            /\ cres' = cres
    /\ UNCHANGED <<qvars, pvars, gvars, last, out>>
    /\ UNCHANGED phase

Consumer ==
    \/ PopLoad
    \/ PopMove
    \/ PopStore
    \/ Front
    \/ Empty
    \/ ClearLoad
    \/ ClearWalk
    \/ ClearStore
    \/ ConsumeLoad
    \/ ConsumeBody
    \/ ConsumeStore
    \/ ConsumeNext

----------------------------------------------------------------------------
\* Destruction: ~spsc_queue, run once both threads have stopped.

\* Walking the cache from cache_tail_.
DtorFirstIsCacheTail == cache_tail_

\* Line 120: first = cache_head_().
DtorFirst == cache_head_

\* The first loop stopping at before_head_.
DtorCacheEndIsSentinel == before_head_

\* Line 123: cache_end = head_().
DtorCacheEnd == head_

\* Lines 123-126: the nodes the first loop deallocates, from first up to
\* cache_end.
DtorCached == WalkUntil(DtorFirst, DtorCacheEnd, MaxNodes + 1)

\* Lines 129-133: the nodes the second loop destroys and deallocates, from
\* where the first loop left first until nullptr.
DtorEnqueued ==
    WalkFrom(IF DtorCached = <<>> THEN DtorFirst
             ELSE NextOf(DtorCached[Len(DtorCached)]), MaxNodes + 1)

Destructor ==
    /\ ppc = "idle"
    /\ cpc = "idle"
    /\ ~destroyed
    /\ destroyed' = TRUE
    /\ alloc' = (alloc \ Range(DtorCached)) \ Range(DtorEnqueued)
    /\ nDealloc' = nDealloc + Len(DtorCached) + Len(DtorEnqueued)
    /\ data' = [n \in Nodes |->
                   IF n \in Range(DtorEnqueued) THEN Dead ELSE data[n]]
    /\ nDestroy' = nDestroy + Len(DtorEnqueued)
    /\ UNCHANGED <<next, tail_, before_head_, cache_tail_, cache_head_>>
    /\ UNCHANGED <<pvars, cvars>>
    /\ UNCHANGED <<nextVal, nThrow, nAlloc, nConstruct, published, consumed>>
    /\ UNCHANGED phase

----------------------------------------------------------------------------
Next == Producer \/ Consumer \/ Destructor

Spec == Init /\ [][Next]_vars

SeqNext ==
    \/ cpc = "idle" /\ Producer
    \/ ppc = "idle" /\ Consumer

\* One thread runs every member function to its end before the next.
SpecSeq == Init /\ [][SeqNext]_vars

----------------------------------------------------------------------------
\* State functions used by the properties.

\* The nodes strictly after before_head_, in chain order.
QueueNodes == WalkFrom(head_, MaxNodes + 1)

\* The nodes from before_head_ on, in chain order.
FromBeforeHead == WalkFrom(before_head_, MaxNodes + 1)

\* The whole chain, from cache_head_ on.
ChainNodes == WalkFrom(cache_head_, MaxNodes + 1)

\* The nodes staged in the private chain of push(first, last).
StagedNodes == WalkFrom(insert_head, MaxNodes + 1)

\* The published values the consumer has not taken out yet.
Unconsumed == SubSeq(published, Len(consumed) + 1, Len(published))

IsPrefix(s, t) ==
    /\ Len(s) <= Len(t)
    /\ \A i \in 1 .. Len(s) : s[i] = t[i]

\* The live values held by the nodes of s, in order.
LiveValues(s) == SelectSeq(ValuesOf(s), LAMBDA v : v /= Dead)

\* The node whose data the consumer's next step reads, moves or destroys.
ConsumerTarget ==
    CASE cpc \in {"pop_move", "ca_body"} -> cx
      [] cpc = "clear_walk" -> NextOf(last)
      [] OTHER -> Null

----------------------------------------------------------------------------
\* C1: with the producer pushing distinct values in order and the consumer
\* popping concurrently, the values taken out are, in every state of every
\* interleaving, a prefix of the values published: none skipped, reordered
\* or taken twice; and a pop about to return true holds the latest of them
\* in out.
FifoOrder ==
    /\ \A i, j \in 1 .. Len(published) : i < j => published[i] < published[j]
    /\ IsPrefix(consumed, published)
    /\ cpc = "pop_store" => out = consumed[Len(consumed)]

\* Three pops have returned 0, 1, 2 while the producer is inside a push.
FifoOrderWitness ==
    /\ consumed = <<0, 1, 2>>
    /\ cres = CRes("pop", "true", Null)
    /\ out = 2
    /\ ppc = "e_publish"

\* C2: the data slot the consumer is about to read, move from or destroy is
\* allocated and live, and the node the producer is about to recycle is
\* neither before_head_ nor reachable from it.
NoUseAfterFree ==
    /\ ConsumerTarget /= Null =>
          /\ ConsumerTarget \in alloc
          /\ DataOf(ConsumerTarget) /= Dead
    /\ (ppc \in {"e_make", "r_make"} /\ Recycles) =>
          x \notin Range(FromBeforeHead)

\* The producer is about to recycle a node while the consumer is about to
\* move an element out.
NoUseAfterFreeWitness ==
    /\ ppc \in {"e_make", "r_make"}
    /\ Recycles
    /\ cpc \in {"pop_move", "ca_body", "clear_walk"}
    /\ ConsumerTarget /= Null

\* C3: a range push publishes all of its elements at once: while it stages
\* them none of its nodes is reachable from before_head_, and from its
\* publication store on every published value not yet taken out is held, in
\* input order, by the nodes reachable from before_head_.
RangeAtomic ==
    /\ ppc \in {"r_load", "r_make", "r_publish", "r_catch"} =>
          Range(StagedNodes) \cap Range(FromBeforeHead) = {}
    /\ ~destroyed => LiveValues(QueueNodes) = Unconsumed

\* A range of three elements has just been published and the consumer,
\* having seen the first, has not yet stored before_head_.
RangeAtomicWitness ==
    /\ ppc = "idle"
    /\ published = <<0, 1, 2>>
    /\ tail_ /= NextOf(before_head_)
    /\ Len(QueueNodes) = 3
    /\ cpc = "pop_move"

\* C4: run from one thread, pop returns false exactly when every published
\* value has been taken out, a pop that returns true moves out the oldest
\* published value not yet taken out, and empty() returns true exactly when
\* pop would return false; so n pushes are popped in order and the queue is
\* empty before them, after them, and after a further batch.
SequentialQueue ==
    [][/\ PopLoad =>
            /\ (cpc' = "idle") <=> (Unconsumed = <<>>)
            /\ (cpc' = "idle") => cres' = CRes("pop", "false", Null)
       /\ (PopMove /\ cpc' = "pop_store") =>
            /\ Unconsumed /= <<>>
            /\ out' = Unconsumed[1]
       /\ PopStore => cres' = CRes("pop", "true", Null)
       /\ Empty => ((cres'.ret = "true") <=> (Unconsumed = <<>>))]_vars

\* Two batches of two were pushed and popped, the second into the nodes the
\* first had left, and the pop after them returned false.
SequentialQueueWitness ==
    /\ consumed = <<0, 1, 2, 3>>
    /\ nAlloc = 3
    /\ nThrow = 0
    /\ out = 3
    /\ cres = CRes("pop", "false", Null)

\* C5: empty() returns true if and only if, when it loads
\* before_head_->next, as many values have been published as the consumer
\* has taken out.
EmptyIffNothingUnseen ==
    /\ [](cpc = "idle" /\ ~destroyed =>
            ((head_ = Null) <=> (Len(published) = Len(consumed))))
    /\ [][Empty =>
            ((cres'.ret = "true") <=> (Len(published) = Len(consumed)))]_vars

\* empty() returned false while the producer was inside a later push.
EmptyIffNothingUnseenWitness ==
    /\ cres = CRes("empty", "false", Null)
    /\ Len(consumed) = 1
    /\ Len(published) = 2
    /\ ppc = "e_publish"

\* C6: the allocator's count of allocations less its count of deallocations
\* is the number of nodes in use (no node is deallocated twice), and the
\* two counts are equal once the destructor has run.
NoLeak ==
    /\ Cardinality(alloc) = nAlloc - nDealloc
    /\ destroyed => (nAlloc = nDealloc /\ alloc = {})

\* The destructor ran after a range push that failed with staged nodes,
\* with elements both taken out and still enqueued.
NoLeakWitness ==
    /\ destroyed
    /\ perr = "range"
    /\ nConstruct > Len(published)
    /\ Len(consumed) >= 1
    /\ Len(published) > Len(consumed)

\* C7: the destructor destroys the data of exactly the nodes strictly after
\* before_head_ up to and including tail_, each once, and deallocates the
\* cached nodes and the sentinel without destroying their data.
DtorDestroysLive ==
    [][Destructor =>
         /\ \A n \in Range(QueueNodes) : data[n] /= Dead /\ data'[n] = Dead
         /\ \A n \in Nodes \ Range(QueueNodes) : data'[n] = data[n]
         /\ nDestroy' - nDestroy = Cardinality(Range(QueueNodes))
         /\ QueueNodes /= <<>> => QueueNodes[Len(QueueNodes)] = tail_
         /\ QueueNodes = <<>> => before_head_ = tail_
         /\ \A n \in Range(WalkUntil(cache_head_, head_, MaxNodes + 1)) :
               data[n] = Dead /\ n \in alloc /\ n \notin alloc'
         /\ before_head_ \in Range(WalkUntil(cache_head_, head_, MaxNodes + 1))
      ]_vars

\* The destructor ran on a queue with two cached nodes and two live
\* elements.
DtorDestroysLiveWitness ==
    /\ destroyed
    /\ Len(WalkUntil(cache_head_, before_head_, MaxNodes + 1)) = 2
    /\ Len(QueueNodes) = 2
    /\ nDestroy = nConstruct

\* C8: a push of one element that fails, by the allocator or by the
\* construction of T, on a cached or on a new node, leaves tail_,
\* cache_head_, before_head_, every next link and every data slot as they
\* were, and no node allocated by the call stays allocated.
EmplaceFailureNoChange ==
    [][/\ EmplaceLoad =>
            UNCHANGED <<tail_, cache_head_, before_head_, next, data, alloc,
                        nAlloc, nDealloc, published>>
       /\ (EmplaceMake /\ ppc' = "idle") =>
            /\ perr' = "emplace"
            /\ UNCHANGED <<tail_, cache_head_, before_head_, next, data,
                           alloc, published>>
            /\ nAlloc' - nAlloc = nDealloc' - nDealloc]_vars

\* A push failed in the construction of T on a newly allocated node, with
\* one element enqueued and one taken out.
EmplaceFailureNoChangeWitness ==
    /\ perr = "emplace"
    /\ ppc = "idle"
    /\ nThrow = 1
    /\ nDealloc = 1
    /\ Len(published) = 2
    /\ Len(consumed) = 1

\* The chain from cache_head_ holds each node once, meets cache_tail_,
\* before_head_ and tail_ in that order, ends at tail_, and is made of
\* allocated nodes.
ChainWellFormed ==
    /\ Cardinality(Range(ChainNodes)) = Len(ChainNodes)
    /\ Range(ChainNodes) \subseteq alloc
    /\ ChainNodes /= <<>>
    /\ ChainNodes[Len(ChainNodes)] = tail_
    /\ \E i, j, k \in 1 .. Len(ChainNodes) :
          /\ i <= j
          /\ j <= k
          /\ ChainNodes[i] = cache_tail_
          /\ ChainNodes[j] = before_head_
          /\ ChainNodes[k] = tail_

\* C9: when the construction of T throws in push(first, last) with nodes
\* already staged, every staged node is live and allocated when the catch
\* block reaches it and is destroyed and deallocated by it, once; no step of
\* the failing call publishes anything; and once the exception has left the
\* call the chain is well formed, holds every allocated node and holds live
\* data exactly in the elements the consumer can still take out.
RangeFailureCleansUp ==
    /\ [](ppc = "r_catch" =>
            /\ StagedNodes /= <<>>
            /\ Cardinality(Range(StagedNodes)) = Len(StagedNodes)
            /\ Range(StagedNodes) \subseteq alloc
            /\ Range(StagedNodes) \cap Range(ChainNodes) = {}
            /\ \A n \in Range(StagedNodes) : data[n] /= Dead)
    /\ [][/\ (RangeMake /\ ppc' \in {"r_catch", "idle"}) =>
               UNCHANGED <<tail_, cache_head_, before_head_, next, data,
                           alloc, published>>
          /\ RangeCatch =>
               /\ data[insert_head] /= Dead
               /\ data'[insert_head] = Dead
               /\ insert_head \in alloc
               /\ insert_head \notin alloc'
               /\ nDestroy' = nDestroy + 1
               /\ nDealloc' = nDealloc + 1
               /\ \A n \in Nodes \ {insert_head} : data'[n] = data[n]
               /\ alloc' = alloc \ {insert_head}
               /\ UNCHANGED <<tail_, cache_head_, before_head_, next,
                              published>>]_vars
    /\ []((ppc = "idle" /\ perr = "range" /\ ~destroyed) =>
            /\ ChainWellFormed
            /\ alloc = Range(ChainNodes)
            /\ {n \in Nodes : data[n] /= Dead} \subseteq Range(QueueNodes)
            /\ LiveValues(QueueNodes) = Unconsumed)

\* A range push failed on its third element after staging one node taken
\* from the cache and one newly allocated.
RangeFailureCleansUpWitness ==
    /\ ppc = "idle"
    /\ perr = "range"
    /\ nConstruct = Len(published) + 2
    /\ nAlloc = 3
    /\ nDealloc = 2
    /\ ~destroyed

\* C10 as stated: a pop whose move fails leaves before_head_ advanced to
\* the node whose element failed to move.
PopFailureReleasesNode ==
    [][(PopMove /\ cpc' = "idle") => before_head_' = cx]_vars

\* C10 as the code has it: a pop whose move fails changes nothing of the
\* queue: before_head_ is not advanced, and the element is still live, not
\* taken out, and at the front.
PopFailureKeepsFront ==
    [][(PopMove /\ cpc' = "idle") =>
          /\ cres' = CRes("pop", "throw", Null)
          /\ UNCHANGED <<before_head_, next, data, consumed, out>>
          /\ head_' = cx
          /\ before_head_' /= cx
          /\ data'[cx] /= Dead]_vars

\* A pop failed in its move with two elements enqueued.
PopFailureKeepsFrontWitness ==
    /\ cres = CRes("pop", "throw", Null)
    /\ cpc = "idle"
    /\ Len(QueueNodes) = 2
    /\ LiveValues(QueueNodes) = Unconsumed
    /\ ~destroyed

\* C11: a pop that finds before_head_->next null returns false and leaves
\* out, before_head_, every next link and every data slot as they were; a
\* pop goes on to move from x only when x is not null.
PopEmptyNoChange ==
    /\ [](cpc = "pop_move" => cx /= Null)
    /\ [][PopLoad =>
            /\ (cpc' = "idle") <=> (head_ = Null)
            /\ (cpc' = "idle") =>
                 /\ cres' = CRes("pop", "false", Null)
                 /\ UNCHANGED <<out, before_head_, next, data, tail_,
                                cache_head_, cache_tail_, alloc, consumed,
                                nDestroy>>]_vars

\* A pop returned false after two pops that returned true, out still
\* holding the second value, while the producer was inside a push.
PopEmptyNoChangeWitness ==
    /\ cres = CRes("pop", "false", Null)
    /\ consumed = <<0, 1>>
    /\ out = 1
    /\ ppc = "e_make"

\* The consumed nodes that precede before_head_ in the chain.
CachedNodes == WalkUntil(cache_head_, before_head_, MaxNodes + 1)

\* The producer enters make_node_ (lines 277-280).
MakeNodeEntry ==
    EmplaceLoad \/ RangeReload \/ \E k \in 1 .. MaxRange : RangeLoad(k)

\* C12: make_node_ goes to the allocator exactly when, as it enters,
\* before_head_ equals cache_head_ (which the refill then loads), and
\* recycles cache_head_ whenever a consumed node precedes before_head_; a
\* recycling call allocates nothing.  So once n >= 1 pushes and then n takes
\* have run on a fresh queue, no step of the next n single pushes allocates,
\* and until it is destroyed the queue has its n + 1 nodes.
RecyclesBeforeAllocating ==
    /\ [][MakeNodeEntry =>
            /\ (~Recycles') <=> (before_head_ = cache_head_)
            /\ (~Recycles') => (cache_tail_ = cache_head_
                                /\ cache_tail_' = before_head_)
            /\ (CachedNodes /= <<>>) <=> Recycles'
            /\ Recycles' => x' = CachedNodes[1]]_vars
    /\ [][(EmplaceMake \/ RangeMake) =>
            /\ (nAlloc' > nAlloc) => ~Recycles
            /\ Recycles => UNCHANGED <<nAlloc, nDealloc, alloc>>
            /\ (Recycles /\ nConstruct' > nConstruct) =>
                 /\ x' = x
                 /\ data[x] = Dead
                 /\ cache_head_' = NextOf(x)]_vars
    /\ [][(Producer /\ phase' = "refill"
              /\ Len(published) < 2 * Len(consumed)) =>
            UNCHANGED <<nAlloc, nDealloc, alloc>>]_vars
    /\ []((phase = "refill" /\ ~destroyed
              /\ \/ Len(published) < 2 * Len(consumed)
                 \/ Len(published) = 2 * Len(consumed) /\ ppc = "idle") =>
            /\ Len(consumed) >= 1
            /\ Cardinality(alloc) = Len(consumed) + 1)

\* Two pushes, two pops and two more pushes have run on a fresh queue, the
\* last two into the nodes the pops released: three allocations in all.
RecyclesBeforeAllocatingWitness ==
    /\ phase = "refill"
    /\ ppc = "idle"
    /\ Len(consumed) = 2
    /\ Len(published) = 4
    /\ nAlloc = 3
    /\ nDealloc = 0

\* The most steps the producer's current call can still take: at most
\* three for each element of the range still to stage, or one for each
\* staged node in the catch block.
ProducerLeft ==
    CASE ppc = "e_make" -> 3
      [] ppc = "e_publish" -> 2
      [] ppc = "e_tail" -> 1
      [] ppc = "r_load" -> 3 * todo + Len(StagedNodes) + 1
      [] ppc = "r_make" -> 3 * todo + Len(StagedNodes)
      [] ppc = "r_publish" -> 2
      [] ppc = "r_tail" -> 1
      [] ppc = "r_catch" -> Len(StagedNodes)
      [] OTHER -> 0

\* The most steps the consumer's current call can still take if the
\* producer publishes nothing more: clear and consume_all go on for as many
\* turns as there are nodes ahead of them.
ConsumerLeft ==
    CASE cpc = "pop_move" -> 2
      [] cpc = "pop_store" -> 1
      [] cpc = "clear_walk" -> Len(WalkFrom(NextOf(last), MaxNodes + 1)) + 2
      [] cpc = "clear_store" -> 1
      [] cpc = "ca_body" -> 3 * Len(WalkFrom(cx, MaxNodes + 1))
      [] cpc = "ca_store" -> 3 * Len(WalkFrom(cx, MaxNodes + 1)) - 1
      [] cpc = "ca_next" -> 3 * Len(WalkFrom(cx, MaxNodes + 1)) - 2
      [] OTHER -> 0

\* The consumer is inside clear or consume_all.
Draining ==
    cpc \in {"clear_walk", "clear_store", "ca_body", "ca_store", "ca_next"}

\* A step of the producer, which alone changes its position and locals.
ProducerStepped == pvars' /= pvars

\* A step of the consumer, which alone changes its position, locals and
\* last result.
ConsumerStepped == cvars' /= cvars

\* C13 as stated: a call in progress can always take its next step, every
\* step it takes brings it nearer to its return, and no step of the other
\* thread adds to the steps it has left, so that the call returns within the
\* number of steps it had left when it was made.
BoundedOwnSteps ==
    /\ [](/\ ppc /= "idle" => ENABLED Producer
          /\ cpc /= "idle" => ENABLED Consumer)
    /\ [][/\ (ProducerStepped /\ ppc /= "idle") =>
               ProducerLeft' < ProducerLeft
          /\ (ConsumerStepped /\ cpc /= "idle") =>
               ConsumerLeft' < ConsumerLeft
          /\ ~ProducerStepped => ProducerLeft' <= ProducerLeft
          /\ ~ConsumerStepped => ConsumerLeft' <= ConsumerLeft]_vars

\* C13 as the code has it: no call ever waits, and a push, a range push and
\* a pop return within a number of own steps fixed when they are called; a
\* clear or consume_all returns within its ConsumerLeft steps unless the
\* producer publishes during the call, which alone adds to them.
BoundedOwnStepsUnlessPublished ==
    /\ [](/\ ppc /= "idle" => ENABLED Producer
          /\ cpc /= "idle" => ENABLED Consumer
          /\ ProducerLeft <= 3 * MaxRange
          /\ ~Draining => ConsumerLeft <= 2
          /\ Draining => ConsumerLeft <= 3 * (Len(Unconsumed) + 1))
    /\ [][/\ ~(ProducerStepped /\ ConsumerStepped)
          /\ (ProducerStepped /\ ppc /= "idle") =>
               ProducerLeft' < ProducerLeft
          /\ (ConsumerStepped /\ cpc /= "idle") =>
               ConsumerLeft' < ConsumerLeft
          /\ ~ProducerStepped => ProducerLeft' = ProducerLeft
          /\ (~ConsumerStepped /\ ~Draining) => ConsumerLeft' = ConsumerLeft
          /\ (~ConsumerStepped /\ ConsumerLeft' /= ConsumerLeft) =>
               /\ Draining
               /\ EmplacePublish \/ RangePublish
               /\ ConsumerLeft' > ConsumerLeft]_vars

\* consume_all has taken two elements and, about to load x->next, has a
\* third ahead of it, while the producer is about to publish a fourth.
BoundedOwnStepsUnlessPublishedWitness ==
    /\ cpc = "ca_next"
    /\ NextOf(cx) /= Null
    /\ consumed = <<0, 1>>
    /\ published = <<0, 1, 2>>
    /\ ppc = "e_publish"

\* consume_all was the consumer's last call and returned without an
\* exception.
ConsumeAllReturned ==
    /\ cpc = "idle"
    /\ cres = CRes("consume_all", "void", Null)

\* C14 as stated: an empty() that follows a consume_all returns true.
EmptyAfterConsumeAll ==
    [][(Empty /\ ConsumeAllReturned) => cres'.ret = "true"]_vars

\* C14 as the code has it: consume_all returns on loading a null next
\* pointer, when every value published has been taken out; until the
\* consumer's next call only a publication of the producer changes that, and
\* the empty() that follows returns true exactly when none was made.
EmptyAfterConsumeAllUnlessPublished ==
    /\ [][((ConsumeLoad \/ ConsumeNext) /\ cpc' = "idle") =>
            /\ cres' = CRes("consume_all", "void", Null)
            /\ head_' = Null
            /\ published' = consumed']_vars
    /\ [][(ConsumeAllReturned /\ ConsumeAllReturned') =>
            /\ UNCHANGED <<consumed, before_head_>>
            /\ (head_' /= head_) =>
                 /\ head_ = Null
                 /\ EmplacePublish \/ RangePublish
                 /\ Len(published') > Len(published)]_vars
    /\ [][(Empty /\ ConsumeAllReturned) =>
            /\ (cres'.ret = "true") <=> (published = consumed)
            /\ (cres'.ret = "false") <=> (Len(published) > Len(consumed))
         ]_vars

\* consume_all has returned after taking two elements, the producer has
\* published a third since, and the consumer has made no call yet.
EmptyAfterConsumeAllUnlessPublishedWitness ==
    /\ ConsumeAllReturned
    /\ consumed = <<0, 1>>
    /\ published = <<0, 1, 2>>
    /\ head_ /= Null
    /\ ppc = "idle"

\* front() was the consumer's last call.
FrontReturned ==
    /\ cpc = "idle"
    /\ cres.op = "front"

\* C15 as stated: front() changes nothing of the queue, and a front() that
\* follows a front() returns the pointer the first returned.
FrontTwiceSame ==
    [][Front =>
         /\ UNCHANGED <<qvars, out, consumed>>
         /\ FrontReturned => cres'.ptr = cres.ptr]_vars

\* C15 as the code has it: front() changes no pointer, next link or data
\* slot and returns before_head_->next; a pointer it returned stays the
\* front, with live data, until the consumer's next call, so a second
\* front() returns it again; after a front() that returned null the second
\* returns null unless the producer has published since.
FrontPure ==
    /\ [][Front =>
            /\ UNCHANGED <<qvars, out, consumed>>
            /\ cres'.ptr = head_
            /\ (cres'.ret = "null") <=> (head_ = Null)
            /\ FrontReturned =>
                 /\ cres.ptr /= Null => cres'.ptr = cres.ptr
                 /\ cres'.ptr /= cres.ptr =>
                      /\ cres.ptr = Null
                      /\ Len(published) > Len(consumed)]_vars
    /\ []((FrontReturned /\ cres.ptr /= Null /\ ~destroyed) =>
            /\ head_ = cres.ptr
            /\ data[cres.ptr] = Unconsumed[1])
    /\ [][(FrontReturned /\ FrontReturned' /\ head_' /= head_) =>
            /\ cres.ptr = Null
            /\ EmplacePublish \/ RangePublish]_vars

\* front() returned null after one element had been popped, and the
\* producer has published another since.
FrontPureWitness ==
    /\ FrontReturned
    /\ cres.ptr = Null
    /\ head_ /= Null
    /\ consumed = <<0>>
    /\ published = <<0, 1>>

\* C16: from construction until the destructor runs, in every state of
\* every interleaving, before_head_ is the address of an allocated node, and
\* so is the value each consumer call is about to store to it; the assertion
\* of head_() holds whenever it is evaluated.
BeforeHeadNeverNull ==
    /\ before_head_ /= Null
    /\ before_head_ \in Nodes
    /\ ~destroyed =>
          /\ before_head_ \in alloc
          /\ before_head_ \in Range(ChainNodes)
          /\ cpc \in {"pop_store", "ca_store"} => cx \in alloc
          /\ cpc = "clear_store" => last \in alloc

\* before_head_ is back at the node the queue was constructed with, which
\* was recycled for the second element, and the producer is about to recycle
\* the node before it.
BeforeHeadNeverNullWitness ==
    /\ before_head_ = 1
    /\ consumed = <<0, 1>>
    /\ ppc = "e_make"
    /\ Recycles
    /\ ~destroyed

\* The nodes clear has destroyed so far in the call in progress.
ClearDrained == WalkUntil(head_, NextOf(last), MaxNodes + 1)

\* C17 as stated: a clear or consume_all writes before_head_ at its end
\* only: once it has written before_head_ it drains no further element.
BeforeHeadStoredOnce ==
    [][/\ (Draining /\ before_head_' /= before_head_) =>
            cpc' \in {"idle", "ca_next"}
       /\ cpc = "ca_next" => cpc' \in {"ca_next", "idle"}]_vars

\* C17 as the code has it: clear leaves before_head_ alone while it walks
\* and destroys, and its last step stores the last node it destroyed, which
\* hands the whole drained prefix over at once; consume_all stores each node
\* to before_head_ as soon as it has destroyed its element, before it loads
\* the next, so that it always works on the node right after before_head_.
BeforeHeadStoredPerCall ==
    /\ [][/\ (ClearLoad \/ ClearWalk) => UNCHANGED before_head_
          /\ ClearStore =>
               /\ cpc' = "idle"
               /\ before_head_' = last
               /\ NextOf(last) = Null \/ Len(published) > Len(consumed)
               /\ \A n \in Range(ClearDrained) : data[n] = Dead
               /\ (last /= before_head_) =>
                    /\ ClearDrained /= <<>>
                    /\ ClearDrained[Len(ClearDrained)] = last
          /\ (ConsumeLoad \/ ConsumeBody \/ ConsumeNext) =>
               UNCHANGED before_head_
          /\ ConsumeStore =>
               /\ cx = head_
               /\ data[cx] = Dead
               /\ before_head_' = cx
               /\ cpc' = "ca_next"]_vars
    /\ [](cpc \in {"clear_walk", "clear_store"} =>
            /\ last \in Range(FromBeforeHead)
            /\ \A n \in Range(ClearDrained) : data[n] = Dead)
    /\ [](cpc \in {"ca_body", "ca_store"} => cx = head_)
    /\ [](cpc = "ca_next" => cx = before_head_)

\* The consumer's first call, a consume_all, is at its second element, and
\* the producer is about to recycle the node the call released with its
\* first store to before_head_.
BeforeHeadStoredPerCallWitness ==
    /\ cres.op = "none"
    /\ cpc = "ca_body"
    /\ consumed = <<0>>
    /\ before_head_ = 2
    /\ ppc = "e_make"
    /\ Recycles
    /\ x = 1

\* The nodes met from n on, as a set.
ReachableFrom(n) == Range(WalkFrom(n, MaxNodes + 1))

\* The producer has stored to tail_->next and not yet assigned tail_.
TailPending == ppc \in {"e_tail", "r_tail"}

\* The node the pending assignment makes tail_.
NewTail == IF ppc = "e_tail" THEN x ELSE insert_tail

\* C18 as stated: in every state before destruction the chain from
\* cache_head_ holds no node twice and meets cache_tail_, before_head_ and
\* tail_ in that order.
PointersInOrder ==
    ~destroyed =>
       /\ Cardinality(Range(ChainNodes)) = Len(ChainNodes)
       /\ cache_tail_ \in ReachableFrom(cache_head_)
       /\ before_head_ \in ReachableFrom(cache_tail_)
       /\ tail_ \in ReachableFrom(before_head_)

\* C18 as the code has it: the chain from cache_head_ holds no node twice
\* and meets cache_tail_ and then before_head_ in every state; tail_ is
\* reachable from before_head_ and ends the chain except between a
\* publication store and the assignment to tail_ that follows it, when
\* tail_ is still reachable from cache_tail_ but the consumer may have moved
\* before_head_ past it, and the node about to become tail_ ends the chain.
PointersInOrderUnlessTailPending ==
    ~destroyed =>
       /\ Cardinality(Range(ChainNodes)) = Len(ChainNodes)
       /\ cache_tail_ \in ReachableFrom(cache_head_)
       /\ before_head_ \in ReachableFrom(cache_tail_)
       /\ tail_ \in ReachableFrom(cache_tail_)
       /\ ~TailPending =>
             /\ tail_ \in ReachableFrom(before_head_)
             /\ NextOf(tail_) = Null
       /\ TailPending =>
             /\ NextOf(tail_) /= Null
             /\ NewTail \in ReachableFrom(NextOf(tail_))
             /\ NewTail \in ReachableFrom(before_head_)
             /\ NextOf(NewTail) = Null

\* A push has stored its node to tail_->next and the consumer has already
\* popped it, so that before_head_ is one node past tail_.
PointersInOrderUnlessTailPendingWitness ==
    /\ ppc = "e_tail"
    /\ before_head_ = x
    /\ tail_ /= x
    /\ NextOf(tail_) = before_head_
    /\ cpc = "idle"
    /\ consumed = <<0, 1>>

\* The elements the consumer's call in progress has destroyed and not yet
\* passed with a store to before_head_.
InFlight ==
    CASE cpc \in {"pop_store", "ca_store"} -> 1
      [] cpc \in {"clear_walk", "clear_store"} -> Len(ClearDrained)
      [] OTHER -> 0

\* The elements the queue holds: those published that no store to
\* before_head_ has passed.
Held == Len(published) - Len(consumed) + InFlight

\* C19: whenever no push is in progress, wherever the consumer is,
\* before_head_ = tail_ exactly when before_head_->next is null, which is
\* exactly when every published element has been passed by before_head_;
\* tail_ is the one node of the chain whose next is null.
EmptyIffAtTail ==
    (ppc = "idle" /\ ~destroyed) =>
       /\ (before_head_ = tail_) <=> (NextOf(before_head_) = Null)
       /\ (before_head_ = tail_) <=> (Held = 0)
       /\ Held = Len(QueueNodes)
       /\ {n \in Range(ChainNodes) : NextOf(n) = Null} = {tail_}

\* No push is in progress and a pop has destroyed the only element left but
\* not yet stored before_head_: the queue still holds it.
EmptyIffAtTailWitness ==
    /\ ppc = "idle"
    /\ cpc = "pop_store"
    /\ published = <<0, 1, 2>>
    /\ consumed = <<0, 1, 2>>
    /\ Held = 1
    /\ before_head_ /= tail_
    /\ cx = tail_

\* The nodes of [cache_head_, cache_tail_).
CacheRegion == WalkUntil(cache_head_, cache_tail_, MaxNodes + 1)

\* The slots a step makes live, and those it makes non-live.
MadeLive == {n \in Nodes : data[n] = Dead /\ data'[n] /= Dead}
MadeDead == {n \in Nodes : data[n] /= Dead /\ data'[n] = Dead}

\* C20: whenever neither thread is inside a call, the nodes strictly after
\* before_head_ up to and including tail_ hold live data, and before_head_,
\* the nodes of [cache_head_, cache_tail_) and every other node before
\* before_head_ hold none; and in every step each construct is applied to a
\* slot that was not live and each destroy to a slot that was.
LivePartition ==
    /\ []((ppc = "idle" /\ cpc = "idle" /\ ~destroyed) =>
            /\ \A n \in Range(QueueNodes) : data[n] /= Dead
            /\ QueueNodes /= <<>> => QueueNodes[Len(QueueNodes)] = tail_
            /\ QueueNodes = <<>> => before_head_ = tail_
            /\ data[before_head_] = Dead
            /\ \A n \in Range(CacheRegion) : data[n] = Dead
            /\ Range(CacheRegion) \subseteq Range(CachedNodes)
            /\ \A n \in Range(CachedNodes) : data[n] = Dead
            /\ \A n \in Nodes \ Range(QueueNodes) : data[n] = Dead)
    /\ [][/\ nConstruct' - nConstruct = Cardinality(MadeLive)
          /\ nDestroy' - nDestroy = Cardinality(MadeDead)
          /\ \A n \in Nodes :
                (data'[n] /= data[n]) => (data[n] = Dead \/ data'[n] = Dead)
         ]_vars

\* Neither thread is inside a call; one element is enqueued, in the node the
\* queue was constructed with, and two consumed nodes are left in
\* [cache_head_, cache_tail_).
LivePartitionWitness ==
    /\ ppc = "idle"
    /\ cpc = "idle"
    /\ ~destroyed
    /\ Len(CacheRegion) = 2
    /\ QueueNodes = <<1>>
    /\ consumed = <<0, 1, 2>>

\* C21: a step of pop, front, empty, clear or consume_all leaves tail_,
\* cache_head_, cache_tail_, every next link and the set of allocated nodes
\* as they were, allocating and deallocating nothing; a step of push, emplace
\* or range push leaves before_head_ as it was and leaves the data of every
\* node linked into the chain as it was when that data is live, the only
\* data it destroys being that of nodes it staged and never published.
OwnershipRespected ==
    [][/\ ConsumerStepped =>
             UNCHANGED <<tail_, cache_head_, cache_tail_, next, alloc,
                         nAlloc, nDealloc>>
       /\ ProducerStepped =>
             /\ UNCHANGED before_head_
             /\ \A n \in Range(ChainNodes) :
                   data[n] /= Dead => data'[n] = data[n]
             /\ MadeDead \subseteq Range(StagedNodes)
             /\ MadeDead /= {} => ppc = "r_catch"
      ]_vars

\* A range push has failed and destroyed the element it had staged while
\* two elements were enqueued, and consume_all has destroyed both and is
\* about to store before_head_ for the second.
OwnershipRespectedWitness ==
    /\ ppc = "idle"
    /\ perr = "range"
    /\ cpc = "ca_store"
    /\ consumed = <<0, 1>>
    /\ published = <<0, 1>>
    /\ nDestroy = 3
    /\ nDealloc = 1
    /\ ~destroyed

=============================================================================
